---- MODULE Spec2Model ----
\* A model of src/gameobjects/nineslice/NineSliceWebGLRenderer.js: the NineSlice
\* WebGL render routine (lines 23-90) and the VideoFile loader file type
\* (lines 126-442).
EXTENDS Integers, Sequences, FiniteSets, TLC

\* ---------------------------------------------------------------- bounds
MaxFaces == 3            \* most faces in src.faces
VertexCapacity == 6      \* pipeline.vertexCapacity, in vertices
MaxComponents == 2       \* largest currentShader.vertexComponentCount
MaxTotalFrame == 4       \* cap on src.totalFrame, to keep the counter finite
MaxUrlLen == 3           \* longest URL, in characters of the URL alphabet
MaxUrls == 2             \* longest list of URLs given to the video command
MaxKeys == 2             \* longest array of configuration objects given as key
NumFiles == 2            \* video files in the load queue
NumBuffers == 2          \* distinct response buffers the XHR transport can deliver

\* ---------------------------------------------------------------- state
VARIABLES
    rpc,                 \* position inside NineSliceWebGLRenderer
    totalFaces,          \* faces.length of the src being rendered
    i,                   \* loop index (0-based, as in the code)
    vertexOffset,        \* local vertexOffset
    totalFacesRendered,  \* local totalFacesRendered
    textureUnit,         \* local textureUnit
    pipeline,            \* the pipeline object's batch counters
    totalFrame,          \* src.totalFrame
    calls,               \* calls made into collaborators during the current call
    entry,               \* pipeline and src.totalFrame as they were on entry
    retval               \* what the last render call returned ("none" while running)

rvars == <<rpc, totalFaces, i, vertexOffset, totalFacesRendered, textureUnit,
           pipeline, totalFrame, calls, entry, retval>>

VARIABLES
    lpc,                 \* "ready" before the video command, "called" after it
    device,              \* game.device.video: the type names whose entry is truthy
    args,                \* the arguments of the video command
    created,             \* what each VideoFile.create call computed, in call order
    fileList,            \* the files handed to loader.addFile, in order
    returned             \* what the video command returned

lvars == <<lpc, device, args, created, fileList, returned>>

VARIABLES
    files,               \* the queued VideoFile records, by index
    running,             \* the file whose onProcess is executing, or 0
    ppc                  \* position inside onProcess ("none" when not running)

pvars == <<files, running, ppc>>

vars == <<rvars, lvars, pvars>>

\* ------------------------------------------------- values and call records
Null == << >>                       \* a null object reference
Some(x) == <<x>>                    \* a non-null reference to x

Call(op) == [op |-> op, face |-> 0, off |-> 0]
FaceCall(op, f, off) == [op |-> op, face |-> f, off |-> off]

\* ------------------------------------------------- the pipeline collaborator
\* WebGLPipeline is not part of the source file; it is modelled from the
\* interface the renderer uses and the behaviour the specification assumes.

\* pipeline.shouldFlush(amount)
ShouldFlush(p, amount) == p.vertexCount + amount > VertexCapacity

\* pipeline.flush(): the possible pipeline states afterwards. The vertex count is
\* reset; the current batch is dropped, or replaced by an empty one.
Flush(p) ==
    IF p.vertexCount = 0
    THEN {p}
    ELSE {[p EXCEPT !.vertexCount = 0, !.currentBatch = Null],
          [p EXCEPT !.vertexCount = 0,
                    !.currentBatch = Some([start |-> 0, count |-> 0, unit |-> 0])]}

\* pipeline.setGameObject(src): the possible pipeline states afterwards. A batch
\* is current afterwards: the existing one, or a new one starting at vertexCount.
SetGameObject(p) ==
    LET fresh == [p EXCEPT !.currentBatch =
                     Some([start |-> p.vertexCount, count |-> 0, unit |-> 0])]
    IN IF p.currentBatch = Null THEN {fresh} ELSE {p, fresh}

\* the texture unit setGameObject returns
UnitOf(p) == p.currentBatch[1].unit

\* ------------------------------------------------- NineSliceWebGLRenderer
\* line 44
InitialOffset(p) == (p.vertexCount * p.vertexComponentCount) - 1

\* line 75
FlushedOffset == 0

\* face.load returns its offset advanced by three vertices' components
FaceLoad(off, p) == off + 3 * p.vertexComponentCount

\* Enter without the early return of lines 28-31
EnterNoEarlyReturn ==
    /\ rpc \in {"idle", "returned"}
    /\ \E n \in 0..MaxFaces :
        /\ totalFrame + n <= MaxTotalFrame
        /\ totalFaces' = n
    /\ rpc' = "L33"
    /\ retval' = "none"
    /\ calls' = << >>
    /\ entry' = [pipeline |-> pipeline, totalFrame |-> totalFrame]
    /\ i' = 0
    /\ totalFacesRendered' = 0
    /\ UNCHANGED <<vertexOffset, textureUnit, pipeline, totalFrame>>
    /\ UNCHANGED <<lvars, pvars>>

\* lines 25-31: entry; an empty face list returns at once
Enter ==
    /\ rpc \in {"idle", "returned"}
    /\ \E n \in 0..MaxFaces :
        /\ totalFrame + n <= MaxTotalFrame
        /\ totalFaces' = n
        /\ rpc' = IF n = 0 THEN "returned" ELSE "L33"
        /\ retval' = IF n = 0 THEN "undefined" ELSE "none"
    /\ calls' = << >>
    /\ entry' = [pipeline |-> pipeline, totalFrame |-> totalFrame]
    /\ i' = 0
    /\ totalFacesRendered' = 0
    /\ UNCHANGED <<vertexOffset, textureUnit, pipeline, totalFrame>>
    /\ UNCHANGED <<lvars, pvars>>

\* Prepare with preBatch issued before the pipeline is set
PrepareEarlyPreBatch ==
    /\ rpc = "L33"
    /\ \E p \in SetGameObject(pipeline) :
        /\ pipeline' = p
        /\ textureUnit' = UnitOf(p)
        /\ vertexOffset' = InitialOffset(p)
    /\ calls' = calls \o <<Call("addToRenderList"), Call("preBatch"),
                           Call("set"), Call("setGameObject")>>
    /\ totalFacesRendered' = 0
    /\ i' = 0
    /\ rpc' = "L62"
    /\ UNCHANGED <<totalFaces, totalFrame, entry, retval>>
    /\ UNCHANGED <<lvars, pvars>>

\* lines 33-60: addToRenderList, pipelines.set, setGameObject, the offset, preBatch
Prepare ==
    /\ rpc = "L33"
    /\ \E p \in SetGameObject(pipeline) :
        /\ pipeline' = p
        /\ textureUnit' = UnitOf(p)
        /\ vertexOffset' = InitialOffset(p)
    /\ calls' = calls \o <<Call("addToRenderList"), Call("set"),
                           Call("setGameObject"), Call("preBatch")>>
    /\ totalFacesRendered' = 0
    /\ i' = 0
    /\ rpc' = "L62"
    /\ UNCHANGED <<totalFaces, totalFrame, entry, retval>>
    /\ UNCHANGED <<lvars, pvars>>

\* lines 62-64: the loop test and faces[i].update
FaceUpdate ==
    /\ rpc = "L62"
    /\ i < totalFaces
    /\ calls' = Append(calls, FaceCall("update", i + 1, 0))
    /\ rpc' = "L66"
    /\ UNCHANGED <<totalFaces, i, vertexOffset, totalFacesRendered, textureUnit,
                   pipeline, totalFrame, entry, retval>>
    /\ UNCHANGED <<lvars, pvars>>

\* FlushCheck that consults shouldFlush but never flushes
FlushCheckNoFlush ==
    /\ rpc = "L66"
    /\ calls' = Append(calls, Call("shouldFlush"))
    /\ rpc' = "L78"
    /\ UNCHANGED <<totalFaces, i, vertexOffset, totalFacesRendered, textureUnit,
                   pipeline, totalFrame, entry, retval>>
    /\ UNCHANGED <<lvars, pvars>>

\* lines 66-76: the flush check before the face is written
FlushCheck ==
    /\ rpc = "L66"
    /\ IF ShouldFlush(pipeline, 3)
       THEN \E f \in Flush(pipeline) :
              IF f.currentBatch = Null
              THEN \E p \in SetGameObject(f) :
                     /\ pipeline' = p
                     /\ textureUnit' = UnitOf(p)
                     /\ calls' = calls \o <<Call("shouldFlush"), Call("flush"),
                                            Call("setGameObject")>>
              ELSE /\ pipeline' = f
                   /\ textureUnit' = textureUnit
                   /\ calls' = calls \o <<Call("shouldFlush"), Call("flush")>>
       ELSE /\ calls' = Append(calls, Call("shouldFlush"))
            /\ UNCHANGED <<pipeline, textureUnit>>
    /\ vertexOffset' = IF ShouldFlush(pipeline, 3) THEN FlushedOffset ELSE vertexOffset
    /\ rpc' = "L78"
    /\ UNCHANGED <<totalFaces, i, totalFacesRendered, totalFrame, entry, retval>>
    /\ UNCHANGED <<lvars, pvars>>

\* line 78: face.load
LoadFace ==
    /\ rpc = "L78"
    /\ calls' = Append(calls, FaceCall("load", i + 1, vertexOffset))
    /\ vertexOffset' = FaceLoad(vertexOffset, pipeline)
    /\ rpc' = "L80"
    /\ UNCHANGED <<totalFaces, i, totalFacesRendered, textureUnit, pipeline,
                   totalFrame, entry, retval>>
    /\ UNCHANGED <<lvars, pvars>>

\* CountFace with the batch count taken before the vertex count is advanced
CountFaceStaleCount ==
    /\ rpc = "L80"
    /\ totalFacesRendered' = totalFacesRendered + 1
    /\ pipeline.currentBatch # Null
    /\ pipeline' = [pipeline EXCEPT
           !.vertexCount = @ + 3,
           !.currentBatch = Some([pipeline.currentBatch[1] EXCEPT
               !.count = pipeline.vertexCount - pipeline.currentBatch[1].start])]
    /\ rpc' = "L62"
    /\ i' = i + 1
    /\ UNCHANGED <<totalFaces, vertexOffset, textureUnit, totalFrame, calls, entry, retval>>
    /\ UNCHANGED <<lvars, pvars>>

\* lines 80-84 and the loop increment: the batch counters
CountFace ==
    /\ rpc = "L80"
    /\ totalFacesRendered' = totalFacesRendered + 1
    /\ IF pipeline.currentBatch = Null
       THEN \* line 84 dereferences null
            /\ pipeline' = [pipeline EXCEPT !.vertexCount = @ + 3]
            /\ rpc' = "threw"
            /\ i' = i
       ELSE /\ pipeline' = [pipeline EXCEPT
                  !.vertexCount = @ + 3,
                  !.currentBatch = Some([pipeline.currentBatch[1] EXCEPT
                      !.count = (pipeline.vertexCount + 3) - pipeline.currentBatch[1].start])]
            /\ rpc' = "L62"
            /\ i' = i + 1
    /\ UNCHANGED <<totalFaces, vertexOffset, textureUnit, totalFrame, calls, entry, retval>>
    /\ UNCHANGED <<lvars, pvars>>

\* line 87, reached when the loop test fails
AddTotalFrame ==
    /\ rpc = "L62"
    /\ ~(i < totalFaces)
    /\ totalFrame' = totalFrame + totalFacesRendered
    /\ rpc' = "L89"
    /\ UNCHANGED <<totalFaces, i, vertexOffset, totalFacesRendered, textureUnit,
                   pipeline, calls, entry, retval>>
    /\ UNCHANGED <<lvars, pvars>>

\* line 89, and the return
PostBatch ==
    /\ rpc = "L89"
    /\ calls' = Append(calls, Call("postBatch"))
    /\ rpc' = "returned"
    /\ retval' = "undefined"
    /\ UNCHANGED <<totalFaces, i, vertexOffset, totalFacesRendered, textureUnit,
                   pipeline, totalFrame, entry>>
    /\ UNCHANGED <<lvars, pvars>>

\* the pipeline states a render call can find: any vertex count within the
\* capacity, and no batch or a batch covering the tail of the buffer
BatchesAt(vc) ==
    {Null} \cup {Some([start |-> s, count |-> vc - s, unit |-> u]) :
                    s \in 0..vc, u \in 0..1}

PipelineStates ==
    UNION {{[vertexCount |-> vc, currentBatch |-> b, vertexComponentCount |-> k] :
              b \in BatchesAt(vc), k \in 1..MaxComponents} :
           vc \in 0..VertexCapacity}

RenderInit ==
    /\ rpc = "idle"
    /\ totalFaces = 0
    /\ i = 0
    /\ vertexOffset = 0
    /\ totalFacesRendered = 0
    /\ textureUnit = 0
    /\ pipeline \in PipelineStates
    /\ totalFrame = 0
    /\ calls = << >>
    /\ entry = [pipeline |-> pipeline, totalFrame |-> totalFrame]
    /\ retval = "none"
    /\ lpc = "ready"
    /\ device = {}
    /\ args = << >>
    /\ created = << >>
    /\ fileList = << >>
    /\ returned = "none"
    /\ files = << >>
    /\ running = 0
    /\ ppc = "none"

RenderNext ==
    \/ Enter
    \/ Prepare
    \/ FaceUpdate
    \/ FlushCheck
    \/ LoadFace
    \/ CountFace
    \/ AddTotalFrame
    \/ PostBatch

RenderSpec == RenderInit /\ [][RenderNext]_vars

\* ------------------------------------------------- VideoFile: values
Undefined == << >>                  \* the JavaScript value undefined

\* URLs and type names are strings over this alphabet. "blob:" and "data:" stand
\* for those five characters; like any character that is neither alphanumeric,
\* '.' nor '?', they end an alphanumeric run without terminating a match.
Alnum == {"m", "M", "o"}
Alphabet == Alnum \cup {".", "?", "blob:", "data:"}

StringsUpTo(n) == UNION {[1..k -> Alphabet] : k \in 1..n}

\* String.prototype.toLowerCase
LowerChar(c) == IF c = "M" THEN "m" ELSE c
ToLowerCase(str) == [k \in 1..Len(str) |-> LowerChar(str[k])]

\* url.indexOf(prefix) === 0, for the one-symbol prefixes of the alphabet
StartsWith(str, prefix) == Len(str) >= 1 /\ str[1] = prefix

\* GetFastValue(source, key, defaultValue), source a plain object or a string
GetFastValue(source, key, defaultValue) ==
    IF ~source.isObject \/ source[key] = Undefined
    THEN defaultValue
    ELSE source[key]

\* IsPlainObject(key)
IsPlainObject(key) == key.isObject

\* ------------------------------------------------- VideoFile.getVideoURL
\* the end of the longest alphanumeric run starting at position p (p - 1 if none)
RECURSIVE RunEnd(_, _)
RunEnd(str, p) ==
    IF p <= Len(str) /\ str[p] \in Alnum THEN RunEnd(str, p + 1) ELSE p - 1

\* does /\.([a-zA-Z0-9]+)($|\?)/ match with its '.' at position p
MatchesAt(str, p) ==
    /\ str[p] = "."
    /\ RunEnd(str, p + 1) >= p + 1
    /\ \/ RunEnd(str, p + 1) = Len(str)
       \/ str[RunEnd(str, p + 1) + 1] = "?"

\* url.match(/\.([a-zA-Z0-9]+)($|\?)/): the first group of the leftmost match,
\* wrapped, or Undefined for no match (line 340)
RECURSIVE MatchFrom(_, _)
MatchFrom(str, p) ==
    IF p > Len(str) THEN Undefined
    ELSE IF MatchesAt(str, p) THEN Some(SubSeq(str, p + 1, RunEnd(str, p + 1)))
    ELSE MatchFrom(str, p + 1)

Match(str) == MatchFrom(str, 1)

\* line 342
VideoType(e) ==
    LET videoType == Match(e.url)
    IN ToLowerCase(GetFastValue(e, "type",
           Some(IF videoType # Undefined THEN videoType[1] ELSE << >>))[1])

\* a support test that only asks whether the device has a video table
SupportsAnything(dev, videoType) == TRUE

\* line 344: game.device.video[videoType]
Supports(dev, videoType) == videoType \in dev

\* line 335
IsBlobOrData(url) == StartsWith(url, "blob:") \/ StartsWith(url, "data:")

\* what getVideoURL returns: null, a string (line 337) or an object (lines 346-349)
NullResult == [tag |-> "null", value |-> Undefined, url |-> Undefined, type |-> Undefined]
StringResult(url) ==
    [tag |-> "string", value |-> Some(url), url |-> Undefined, type |-> Undefined]
ConfigResult(url, videoType) ==
    [tag |-> "config", value |-> Undefined, url |-> Some(url), type |-> Some(videoType)]
ThrewResult == [tag |-> "threw", value |-> Undefined, url |-> Undefined, type |-> Undefined]

\* lines 331-353: the loop, from index k on
RECURSIVE GetVideoURLFrom(_, _, _)
GetVideoURLFrom(dev, items, k) ==
    IF k > Len(items) THEN NullResult
    ELSE LET url == items[k].url
         IN IF IsBlobOrData(url)
            THEN StringResult(url)
            ELSE IF Supports(dev, VideoType(items[k]))
                 THEN ConfigResult(url, VideoType(items[k]))
                 ELSE GetVideoURLFrom(dev, items, k + 1)

\* the loop without its early returns: the last entry that qualifies wins
RECURSIVE LastVideoURLFrom(_, _, _)
LastVideoURLFrom(dev, items, k) ==
    IF k < 1 THEN NullResult
    ELSE LET url == items[k].url
         IN IF IsBlobOrData(url)
            THEN StringResult(url)
            ELSE IF Supports(dev, VideoType(items[k]))
                 THEN ConfigResult(url, VideoType(items[k]))
                 ELSE LastVideoURLFrom(dev, items, k - 1)

GetVideoURLLast(dev, urls) ==
    IF urls = Undefined
    THEN ThrewResult
    ELSE LastVideoURLFrom(dev, urls[1].items, Len(urls[1].items))

\* lines 324-354. An undefined urls becomes [undefined], and line 335 throws.
GetVideoURL(dev, urls) ==
    IF urls = Undefined
    THEN ThrewResult
    ELSE GetVideoURLFrom(dev, urls[1].items, 1)

\* ------------------------------------------------- VideoFile and create
\* lines 133-149: the file configuration the constructor hands to File. urlConfig
\* is what getVideoURL returned; a string has no type and no url property.
VideoFile(key, urlConfig, loadEvent, asBlob, xhrSettings) ==
    [type |-> "video",
     cache |-> "cacheManager.video",
     extension |-> urlConfig.type,
     responseType |-> "arraybuffer",
     key |-> key,
     url |-> urlConfig.url,
     xhrSettings |-> xhrSettings,
     config |-> [loadEvent |-> loadEvent, asBlob |-> asBlob]]

EmptyArray == Some([isArray |-> TRUE, items |-> << >>])

\* create with the positional arguments taking precedence over the object's
CreatePositionalFirst(dev, key, urls, loadEvent, asBlob, xhrSettings) ==
    LET plain == IsPlainObject(key)
        urls2 == IF plain /\ urls = Undefined
                 THEN GetFastValue(key, "url", EmptyArray) ELSE urls
        loadEvent2 == IF plain /\ loadEvent = Undefined
                      THEN GetFastValue(key, "loadEvent", Some("canplaythrough"))
                      ELSE loadEvent
        asBlob2 == IF plain /\ asBlob = Undefined
                   THEN GetFastValue(key, "asBlob", Some(FALSE)) ELSE asBlob
        xhrSettings2 == IF plain /\ xhrSettings = Undefined
                        THEN GetFastValue(key, "xhrSettings", Undefined)
                        ELSE xhrSettings
        urlConfig == GetVideoURL(dev, urls2)
    IN [key |-> key, urls |-> urls2, loadEvent |-> loadEvent2, asBlob |-> asBlob2,
        xhrSettings |-> xhrSettings2, urlConfig |-> urlConfig,
        file |-> IF urlConfig.tag \in {"string", "config"}
                 THEN Some(VideoFile(key, urlConfig, loadEvent2, asBlob2, xhrSettings2))
                 ELSE Null]

\* lines 303-322: the locals after lines 308-314, the URL chosen, the file built
Create(dev, key, urls, loadEvent, asBlob, xhrSettings) ==
    LET plain == IsPlainObject(key)
        urls2 == IF plain THEN GetFastValue(key, "url", EmptyArray) ELSE urls
        loadEvent2 == IF plain THEN GetFastValue(key, "loadEvent", Some("canplaythrough"))
                      ELSE loadEvent
        asBlob2 == IF plain THEN GetFastValue(key, "asBlob", Some(FALSE)) ELSE asBlob
        xhrSettings2 == IF plain THEN GetFastValue(key, "xhrSettings", Undefined)
                        ELSE xhrSettings
        urlConfig == GetVideoURL(dev, urls2)
    IN [key |-> key, urls |-> urls2, loadEvent |-> loadEvent2, asBlob |-> asBlob2,
        xhrSettings |-> xhrSettings2, urlConfig |-> urlConfig,
        file |-> IF urlConfig.tag \in {"string", "config"}
                 THEN Some(VideoFile(key, urlConfig, loadEvent2, asBlob2, xhrSettings2))
                 ELSE Null]

\* ------------------------------------------------- the 'video' command
StringKey(name) ==
    [isObject |-> FALSE, key |-> Some(name), url |-> Undefined,
     loadEvent |-> Undefined, asBlob |-> Undefined, xhrSettings |-> Undefined]

StringEntry(u) == [isObject |-> FALSE, url |-> u, type |-> Undefined]
ObjectEntry(u, t) == [isObject |-> TRUE, url |-> u, type |-> t]
ArrayOf(items) == Some([isArray |-> TRUE, items |-> items])
NotArray(item) == Some([isArray |-> FALSE, items |-> <<item>>])

\* an entry with URL u: the string itself, or an object with an explicit type
TypeOptions == {Undefined, Some(<<"m">>), Some(<<"M">>), Some(<<"o">>), Some(<< >>)}
Entry(u, t) == IF t = Undefined THEN StringEntry(u) ELSE ObjectEntry(u, t)

\* the entries lists are made of: a two-character URL, '.', "blob:" or "data:"
\* before one alphanumeric, as a string or with an explicit type
ListUrls == {<<c, a>> : c \in {".", "blob:", "data:"}, a \in Alnum}
ListEntries ==
    {StringEntry(u) : u \in ListUrls}
    \cup {ObjectEntry(u, Some(t)) : u \in {<<".", "o">>, <<"blob:", "o">>},
                                    t \in {<<"M">>, <<"o">>}}

ListsUpTo(S, n) == UNION {[1..k -> S] : k \in 0..n}

UrlArgs == {Undefined, ArrayOf(<< >>), ArrayOf(<<StringEntry(<<".", "m">>)>>),
            NotArray(StringEntry(<<".", "M">>))}

ConfigKeys ==
    {[isObject |-> TRUE, key |-> Some("k"), url |-> u, loadEvent |-> le,
      asBlob |-> ab, xhrSettings |-> xs] :
        u \in UrlArgs \ {NotArray(StringEntry(<<".", "M">>))},
        le \in {Undefined, Some("loadeddata")},
        ab \in {Undefined, Some(TRUE), Some(FALSE)},
        xs \in {Undefined, Some("xhrA")}}

ArrayKeys ==
    {[isObject |-> TRUE, key |-> Some("k"), url |-> u, loadEvent |-> le,
      asBlob |-> Undefined, xhrSettings |-> Undefined] :
        u \in {Undefined, ArrayOf(<<StringEntry(<<".", "m">>)>>),
               ArrayOf(<<StringEntry(<<"blob:", "o">>)>>)},
        le \in {Undefined, Some("loadeddata")}}

Positional(urls, le, ab, xs) ==
    [urls |-> urls, loadEvent |-> le, asBlob |-> ab, xhrSettings |-> xs]
NoPositional == Positional(Undefined, Undefined, Undefined, Undefined)

OptionKeys == ConfigKeys \cup {StringKey("k")}

ArrayCalls == ListsUpTo(ArrayKeys, MaxKeys)

\* lines 420-429: the loop over an array key, from index k on
RECURSIVE CreateAll(_, _, _)
CreateAll(dev, keys, k) ==
    IF k > Len(keys) THEN << >>
    ELSE <<Create(dev, keys[k], Undefined, Undefined, Undefined, Undefined)>>
         \o CreateAll(dev, keys, k + 1)

RECURSIVE AddFiles(_, _, _)
AddFiles(list, made, k) ==
    IF k > Len(made) THEN list
    ELSE AddFiles(IF made[k].file # Null THEN Append(list, made[k].file[1]) ELSE list,
                  made, k + 1)

\* lines 431-441: the command called with a key that is not an array
Video(key, pos) ==
    LET made == Create(device, key, pos.urls, pos.loadEvent, pos.asBlob, pos.xhrSettings)
    IN /\ args' = [keyIsArray |-> FALSE, keys |-> <<key>>, pos |-> pos]
       /\ created' = <<made>>
       /\ fileList' = AddFiles(fileList, <<made>>, 1)
       /\ returned' = IF made.urlConfig.tag = "threw" THEN "threw" ELSE "loader"
       /\ lpc' = "called"
       /\ UNCHANGED <<device, rvars, pvars>>

\* the command with one URL of any shape, as a one-element array or on its own
VideoCommandUrl ==
    /\ lpc = "ready"
    /\ \E u \in StringsUpTo(MaxUrlLen), t \in TypeOptions, asArray \in BOOLEAN :
        Video(StringKey("k"),
              Positional(IF asArray THEN ArrayOf(<<Entry(u, t)>>) ELSE NotArray(Entry(u, t)),
                         Undefined, Undefined, Undefined))

\* the command with a list of URLs
VideoCommandList ==
    /\ lpc = "ready"
    /\ \E l \in ListsUpTo(ListEntries, MaxUrls) :
        Video(StringKey("k"), Positional(ArrayOf(l), Undefined, Undefined, Undefined))

\* the command with a string or configuration-object key and every mix of
\* positional arguments
VideoCommandOptions ==
    /\ lpc = "ready"
    /\ \E k \in OptionKeys, u \in UrlArgs, le \in {Undefined, Some("canplay")},
          ab \in {Undefined, Some(TRUE)}, xs \in {Undefined, Some("xhrB")} :
        Video(k, Positional(u, le, ab, xs))

\* lines 418-430 and 441: the command with an array of configuration objects
VideoCommandArray ==
    /\ lpc = "ready"
    /\ \E keys \in ArrayCalls :
        LET made == CreateAll(device, keys, 1)
        IN /\ args' = [keyIsArray |-> TRUE, keys |-> keys, pos |-> NoPositional]
           /\ created' = made
           /\ fileList' = AddFiles(fileList, made, 1)
           /\ returned' = "loader"
    /\ lpc' = "called"
    /\ UNCHANGED <<device, rvars, pvars>>

Devices == SUBSET {<<"m">>, <<"M">>}

LoaderInit ==
    /\ lpc = "ready"
    /\ device \in Devices
    /\ args = << >>
    /\ created = << >>
    /\ fileList = << >>
    /\ returned = "none"
    /\ rpc = "idle"
    /\ totalFaces = 0
    /\ i = 0
    /\ vertexOffset = 0
    /\ totalFacesRendered = 0
    /\ textureUnit = 0
    /\ pipeline = [vertexCount |-> 0, currentBatch |-> Null, vertexComponentCount |-> 1]
    /\ totalFrame = 0
    /\ calls = << >>
    /\ entry = [pipeline |-> pipeline, totalFrame |-> totalFrame]
    /\ retval = "none"
    /\ files = << >>
    /\ running = 0
    /\ ppc = "none"

LoaderNext ==
    \/ VideoCommandUrl
    \/ VideoCommandList
    \/ VideoCommandOptions
    \/ VideoCommandArray

LoaderSpec == LoaderInit /\ [][LoaderNext]_vars


\* ------------------------------------------------- VideoFile lifecycle
\* the lifecycle methods the class body of lines 126-301 defines; the others
\* (lines 178-299) are inside comments
VideoFileMethods == {"onProcess"}

\* the implementation a lifecycle call on a VideoFile reaches
Dispatch(method) ==
    <<method, IF method \in VideoFileMethods THEN "VideoFile" ELSE "File">>

Buffer(b) == [buffer |-> b, copy |-> FALSE]

\* line 171, which is commented out: a new object built from the response
ConvertedData(response) == [response EXCEPT !.copy = TRUE]

\* line 173: the response object itself
ProcessedData(response) == response

NewFile == [state |-> "FILE_PENDING", data |-> Undefined, response |-> Undefined,
            progressed |-> FALSE, trace |-> << >>]

Idle == running = 0

\* File.load: the transfer starts
Load(f) ==
    /\ Idle
    /\ files[f].state = "FILE_PENDING"
    /\ files' = [files EXCEPT ![f].state = "FILE_LOADING",
                              ![f].trace = Append(@, Dispatch("load"))]
    /\ UNCHANGED <<running, ppc, rvars, lvars>>

\* File.onProgress
OnProgress(f) ==
    /\ Idle
    /\ files[f].state = "FILE_LOADING"
    /\ ~files[f].progressed
    /\ files' = [files EXCEPT ![f].progressed = TRUE,
                              ![f].trace = Append(@, Dispatch("onProgress"))]
    /\ UNCHANGED <<running, ppc, rvars, lvars>>

\* File.onError
OnError(f) ==
    /\ Idle
    /\ files[f].state = "FILE_LOADING"
    /\ files' = [files EXCEPT ![f].state = "FILE_ERRORED",
                              ![f].trace = Append(@, Dispatch("onError"))]
    /\ UNCHANGED <<running, ppc, rvars, lvars>>

\* File.onLoad with response buffer b; the loader's nextFile then calls onProcess
OnLoad(f, b) ==
    /\ Idle
    /\ files[f].state = "FILE_LOADING"
    /\ files' = [files EXCEPT ![f].state = "FILE_LOADED",
                              ![f].response = Some(Buffer(b)),
                              ![f].trace = @ \o <<Dispatch("onLoad"), Dispatch("onProcess")>>]
    /\ running' = f
    /\ ppc' = "L167"
    /\ UNCHANGED <<rvars, lvars>>

\* line 167
SetProcessing ==
    /\ running # 0
    /\ ppc = "L167"
    /\ files' = [files EXCEPT ![running].state = "FILE_PROCESSING"]
    /\ ppc' = "L173"
    /\ UNCHANGED <<running, rvars, lvars>>

\* line 173
SetData ==
    /\ running # 0
    /\ ppc = "L173"
    /\ files' = [files EXCEPT ![running].data = Some(ProcessedData(files[running].response[1]))]
    /\ ppc' = "L175"
    /\ UNCHANGED <<running, rvars, lvars>>

\* line 175: File.onProcessComplete, and the return
CallProcessComplete ==
    /\ running # 0
    /\ ppc = "L175"
    /\ files' = [files EXCEPT ![running].state = "FILE_COMPLETE",
                              ![running].trace = Append(@, Dispatch("onProcessComplete"))]
    /\ running' = 0
    /\ ppc' = "none"
    /\ UNCHANGED <<rvars, lvars>>

ProcessInit ==
    /\ files = [f \in 1..NumFiles |-> NewFile]
    /\ running = 0
    /\ ppc = "none"
    /\ lpc = "called"
    /\ device = {}
    /\ args = << >>
    /\ created = << >>
    /\ fileList = << >>
    /\ returned = "loader"
    /\ rpc = "idle"
    /\ totalFaces = 0
    /\ i = 0
    /\ vertexOffset = 0
    /\ totalFacesRendered = 0
    /\ textureUnit = 0
    /\ pipeline = [vertexCount |-> 0, currentBatch |-> Null, vertexComponentCount |-> 1]
    /\ totalFrame = 0
    /\ calls = << >>
    /\ entry = [pipeline |-> pipeline, totalFrame |-> totalFrame]
    /\ retval = "none"

ProcessNext ==
    \/ \E f \in 1..NumFiles : Load(f)
    \/ \E f \in 1..NumFiles : OnProgress(f)
    \/ \E f \in 1..NumFiles : OnError(f)
    \/ \E f \in 1..NumFiles, b \in 1..NumBuffers : OnLoad(f, b)
    \/ SetProcessing
    \/ SetData
    \/ CallProcessComplete

ProcessSpec == ProcessInit /\ [][ProcessNext]_vars


\* ------------------------------------------------- renderer properties
InCall == rpc \in {"L33", "L62", "L66", "L78", "L80", "L89"}
InLoop == rpc \in {"L62", "L66", "L78", "L80"}

HasCall(op) == \E k \in 1..Len(calls) : calls[k].op = op
CountCalls(op) == Cardinality({k \in 1..Len(calls) : calls[k].op = op})
LastFlush == IF HasCall("flush")
             THEN CHOOSE k \in 1..Len(calls) :
                    /\ calls[k].op = "flush"
                    /\ \A j \in (k + 1)..Len(calls) : calls[j].op # "flush"
             ELSE 0
LoadsSinceFlush == Cardinality({k \in (LastFlush + 1)..Len(calls) : calls[k].op = "load"})
Strip(seq) == [k \in 1..Len(seq) |-> <<seq[k].op, seq[k].face>>]
NotFlushOp(c) == c.op \notin {"shouldFlush", "flush", "setGameObject"}

RECURSIVE FaceSeq(_)
FaceSeq(n) == IF n = 0 THEN << >>
              ELSE FaceSeq(n - 1) \o <<<<"update", n>>, <<"load", n>>>>

\* C1: a render call with an empty face list makes no call into the pipeline
\* manager, the pipeline or the camera, and leaves pipeline.vertexCount, the
\* current batch (its count included) and src.totalFrame as they were.
C1_EmptyFacesNoEffect ==
    (rpc = "returned" /\ totalFaces = 0) =>
        /\ calls = << >>
        /\ pipeline = entry.pipeline
        /\ totalFrame = entry.totalFrame

C1_Witness ==
    /\ rpc = "returned"
    /\ totalFaces = 0
    /\ entry.pipeline.vertexCount > 0
    /\ entry.pipeline.currentBatch # Null
    /\ entry.totalFrame > 0

\* C6: shouldFlush(3) is consulted for every face between its update and its
\* load, a face is loaded only when three more vertices fit, and
\* pipeline.vertexCount never exceeds the capacity during a render call.
C6_NeverOverCapacity ==
    /\ pipeline.vertexCount <= VertexCapacity
    /\ rpc = "L78" => ~ShouldFlush(pipeline, 3)
    /\ \A k \in 1..Len(calls) : calls[k].op = "load" =>
         \E j \in 2..(k - 1) :
            /\ calls[j].op = "shouldFlush"
            /\ calls[j - 1] = FaceCall("update", calls[k].face, 0)
            /\ \A m \in (j + 1)..(k - 1) : calls[m].op \in {"flush", "setGameObject"}

C6_Witness ==
    /\ rpc = "L62"
    /\ i = totalFaces
    /\ totalFaces = MaxFaces
    /\ HasCall("flush")
    /\ pipeline.vertexCount = 3

\* C7: at the end of every loop iteration vertexCount is three more than at the
\* end of the previous iteration (than zero, when this iteration flushed), a
\* batch is current, its count is vertexCount - start, line 84 never
\* dereferences null, and the call returns undefined.
C7_BatchCountersConsistent ==
    /\ rpc # "threw"
    /\ (rpc = "L62" /\ i >= 1) =>
         /\ pipeline.currentBatch # Null
         /\ pipeline.currentBatch[1].count =
                pipeline.vertexCount - pipeline.currentBatch[1].start
         /\ pipeline.vertexCount =
                (IF LastFlush = 0 THEN entry.pipeline.vertexCount ELSE 0)
                + 3 * LoadsSinceFlush
    /\ rpc = "returned" => retval = "undefined"

C7_Witness ==
    /\ rpc = "L62"
    /\ i >= 2
    /\ HasCall("flush")
    /\ LastFlush < Len(calls)
    /\ calls[LastFlush + 1].op = "setGameObject"
    /\ LoadsSinceFlush = 1

\* C8: a render call with at least one face calls addToRenderList, pipelines.set,
\* setGameObject, preBatch, then update and load once per face in list order,
\* then adds the number of faces to src.totalFrame, then calls postBatch; a
\* flush in the loop adds no preBatch or postBatch and skips no face.
C8_CallOrder ==
    /\ InLoop => totalFrame = entry.totalFrame /\ ~HasCall("postBatch")
    /\ rpc = "L89" =>
         /\ totalFrame = entry.totalFrame + totalFaces
         /\ ~HasCall("postBatch")
         /\ Strip(SelectSeq(SubSeq(calls, 5, Len(calls)), NotFlushOp)) = FaceSeq(totalFaces)
    /\ (rpc = "returned" /\ totalFaces >= 1) =>
         /\ Len(calls) >= 5
         /\ Strip(SubSeq(calls, 1, 4)) = <<<<"addToRenderList", 0>>, <<"set", 0>>,
                                           <<"setGameObject", 0>>, <<"preBatch", 0>>>>
         /\ Strip(SelectSeq(SubSeq(calls, 5, Len(calls)), NotFlushOp))
                = FaceSeq(totalFaces) \o <<<<"postBatch", 0>>>>
         /\ CountCalls("preBatch") = 1
         /\ CountCalls("postBatch") = 1
         /\ totalFrame = entry.totalFrame + totalFaces

C8_Witness ==
    /\ rpc = "returned"
    /\ totalFaces = MaxFaces
    /\ HasCall("flush")
    /\ entry.totalFrame > 0

\* C9: at every face.load call the vertexOffset argument equals
\* pipeline.vertexCount * vertexComponentCount - 1.
C9_OffsetAgreesWithVertexCount ==
    rpc = "L78" =>
        vertexOffset = (pipeline.vertexCount * pipeline.vertexComponentCount) - 1

\* ------------------------------------------------- loader properties
\* What an entry's type is, stated directly rather than by the scanning loop.
ClaimLower == [c \in Alphabet |-> IF c = "M" THEN "m" ELSE c]

\* the (dot, end) positions at which '.', an alphanumeric run, then the end of
\* the string or a '?' occur
ExtSpans(u) ==
    {sp \in (1..Len(u)) \X (1..Len(u)) :
        /\ sp[1] < sp[2]
        /\ u[sp[1]] = "."
        /\ \A k \in (sp[1] + 1)..sp[2] : u[k] \in Alnum
        /\ (sp[2] = Len(u) \/ u[sp[2] + 1] = "?")}

\* the file extension: the run of the leftmost such occurrence, or ''
ClaimExtension(u) ==
    IF ExtSpans(u) = {} THEN << >>
    ELSE LET sp == CHOOSE a \in ExtSpans(u) : \A b \in ExtSpans(u) : a[1] <= b[1]
         IN SubSeq(u, sp[1] + 1, sp[2])

ClaimType(e) ==
    LET t == IF e.isObject /\ e.type # Undefined THEN e.type[1] ELSE ClaimExtension(e.url)
    IN [k \in 1..Len(t) |-> ClaimLower[t[k]]]

ClaimSupported(e) == ClaimType(e) \in device
ClaimBlobOrData(e) == Len(e.url) >= 1 /\ e.url[1] \in {"blob:", "data:"}
ClaimEligible(e) == ClaimBlobOrData(e) \/ ClaimSupported(e)

Called == lpc = "called"
ItemsOf(c) == c.urls[1].items
FilesMade == Cardinality({k \in 1..Len(created) : created[k].file # Null})

\* the command added exactly the files create built, in order, and returned the loader
AddedWhatWasMade ==
    /\ Len(fileList) = FilesMade
    /\ \A k \in 1..Len(created) : created[k].file # Null =>
         fileList[Cardinality({j \in 1..k : created[j].file # Null})] = created[k].file[1]
    /\ returned = "loader"

FirstWhere(items, P(_)) ==
    CHOOSE n \in 1..Len(items) : P(items[n]) /\ \A j \in 1..(n - 1) : ~P(items[j])

\* the URL a result carries, as a string or as its url property
ResultUrl(r) == IF r.tag = "string" THEN r.value ELSE r.url

Expected(key, pos) ==
    IF key.isObject
    THEN [urls |-> IF key.url # Undefined THEN key.url
                   ELSE Some([isArray |-> TRUE, items |-> << >>]),
          loadEvent |-> IF key.loadEvent # Undefined THEN key.loadEvent
                        ELSE Some("canplaythrough"),
          asBlob |-> IF key.asBlob # Undefined THEN key.asBlob ELSE Some(FALSE),
          xhrSettings |-> key.xhrSettings]
    ELSE pos

OptionsOf(c) ==
    [urls |-> c.urls, loadEvent |-> c.loadEvent, asBlob |-> c.asBlob,
     xhrSettings |-> c.xhrSettings]

\* C5: with a plain-object key, url, loadEvent, asBlob and xhrSettings come from
\* the object alone, defaulting to [], 'canplaythrough', false and undefined, a
\* missing url yields no file, and the positional arguments are ignored; with
\* any other key the positional arguments are used unchanged. A file that is
\* built carries these options.
C5_OptionsFromConfigObject ==
    Called =>
      \A k \in 1..Len(created) :
        LET c == created[k]
            want == Expected(args.keys[k], args.pos)
        IN /\ c.key = args.keys[k]
           /\ OptionsOf(c) = want
           /\ (c.key.isObject /\ c.key.url = Undefined) => c.file = Null
           /\ c.file # Null =>
                /\ c.file[1].config = [loadEvent |-> want.loadEvent,
                                       asBlob |-> want.asBlob]
                /\ c.file[1].xhrSettings = want.xhrSettings

C5_Witness ==
    /\ Called
    /\ ~args.keyIsArray
    /\ args.keys[1].isObject
    /\ args.keys[1].url = Undefined
    /\ args.keys[1].loadEvent = Undefined
    /\ args.keys[1].asBlob = Undefined
    /\ args.keys[1].xhrSettings = Undefined
    /\ args.pos.urls = Some([isArray |-> TRUE,
                             items |-> <<[isObject |-> FALSE, url |-> <<".", "m">>,
                                          type |-> Undefined]>>])
    /\ args.pos.loadEvent = Some("canplay")
    /\ args.pos.asBlob = Some(TRUE)
    /\ args.pos.xhrSettings = Some("xhrB")
    /\ device = {<<"m">>}
    /\ created[1].file = Null
    /\ created[1].loadEvent = Some("canplaythrough")
    /\ created[1].asBlob = Some(FALSE)

\* ------------------------------------------------- lifecycle properties
TimesCalled(f, method) ==
    Cardinality({k \in 1..Len(files[f].trace) : files[f].trace[k][1] = method})

\* C4: onProcess sets the state to FILE_PROCESSING, then sets data to the very
\* object xhrLoader.response holds, then calls onProcessComplete, once per
\* onProcess call; of the lifecycle methods only onProcess runs VideoFile's code.
C4_OnProcessOrder ==
    \A f \in 1..Len(files) :
      /\ (running = f /\ ppc = "L167") =>
            /\ files[f].state = "FILE_LOADED"
            /\ files[f].data = Undefined
      /\ (running = f /\ ppc = "L173") =>
            /\ files[f].state = "FILE_PROCESSING"
            /\ files[f].data = Undefined
      /\ (running = f /\ ppc = "L175") =>
            /\ files[f].state = "FILE_PROCESSING"
            /\ files[f].data = files[f].response
            /\ files[f].response # Undefined
      /\ TimesCalled(f, "onProcessComplete") =
            TimesCalled(f, "onProcess") - (IF running = f THEN 1 ELSE 0)
      /\ files[f].state = "FILE_COMPLETE" =>
            /\ files[f].data = files[f].response
            /\ files[f].response # Undefined
            /\ files[f].trace[Len(files[f].trace)] = <<"onProcessComplete", "File">>
            /\ files[f].trace[Len(files[f].trace) - 1] = <<"onProcess", "VideoFile">>
      /\ files[f].data # Undefined => files[f].state \in {"FILE_PROCESSING", "FILE_COMPLETE"}
      /\ \A k \in 1..Len(files[f].trace) :
            (files[f].trace[k][2] = "VideoFile") <=> (files[f].trace[k][1] = "onProcess")

C4_Witness ==
    /\ Len(files) >= 2
    /\ files[1].state = "FILE_COMPLETE"
    /\ files[1].data = <<[buffer |-> 2, copy |-> FALSE]>>
    /\ files[1].progressed
    /\ running = 2
    /\ ppc = "L175"
    /\ files[2].data = <<[buffer |-> 1, copy |-> FALSE]>>

====
